---- MODULE Spec2Model ----
(***************************************************************************)
(* Model of update_news.py: the news ingestion-enrichment pipeline.        *)
(*                                                                         *)
(* One run of fetch_and_process_news() is the sequence of steps            *)
(*   StartRun, FetchNews, ProcessArticle (per article), Deduplicate,       *)
(*   WriteOutput                                                           *)
(* and the model executes it twice (run 1, then run 2) against the same    *)
(* fixed upstream responses, so that properties relating two runs can be   *)
(* stated.                                                                 *)
(*                                                                         *)
(* Python values are modelled as strings.  None (also: a key absent from   *)
(* a dict read with .get) is the distinguished string None; "" is the      *)
(* empty string.  Both are falsy, every other string is truthy.            *)
(***************************************************************************)
EXTENDS Naturals, Sequences, FiniteSets

\* Longest article array the NewsAPI response carries in the model.
MaxArticles == 2

None == "<None>"

\* Python truthiness of a string-or-None value (`not v`).
Falsy(v) == v = None \/ v = ""

Truthy(v) == ~Falsy(v)

\* Python `a or b`.
PyOr(a, b) == IF Truthy(a) THEN a ELSE b

-----------------------------------------------------------------------------
(* Upstream responses: the inputs of a run.                                *)

\* Categories the prompt asks the text-generation service to choose from.
Categories == {"Defence", "National", "International", "Sci & Tech"}

\* An element of news_data['articles'], read with article.get(field).
Article(t, u, p, c, d) ==
    [title |-> t, url |-> u, publishedAt |-> p, content |-> c, description |-> d]

\* Article objects a NewsAPI answer may hold: three that pass the filter of
\* the loop (two of them sharing a url) and three that do not.
ArticleObjects ==
    { Article("T1", "U1", "d1", "c1", None),
      Article("T2", "U1", "d2", "", "desc2"),
      Article("T3", "U2", None, "c3", "desc3"),
      Article(None, "U1", "d4", "c4", "desc4"),
      Article("T5", "", "d5", "c5", None),
      Article("T6", "U2", "d6", None, "") }

\* Texts a generateContent candidate may carry, as token sequences: code
\* fences (three backquotes, with or without the word json), whitespace and
\* one payload.
FENCE_JSON == "<fence>json"
FENCE == "<fence>"
WS == "\n"
J_GOOD == "{\"summary\": \"s1\", \"category\": \"Defence\"}"
J_OTHER == "{\"summary\": \"s2\", \"category\": \"Sports\"}"
J_NO_SUMMARY == "{\"category\": \"National\"}"
J_EMPTY_CATEGORY == "{\"summary\": \"s3\", \"category\": \"\"}"
J_LIST == "[1]"
J_NULL == "null"
NOT_JSON == "Here is the summary you asked for"

\* What requests.post() yields for one article: an HTTP failure, or a body
\* whose first candidate holds `text`.
GeminiResponses ==
    { [http |-> "error", text |-> << >>],
      [http |-> "ok", text |-> <<FENCE_JSON, WS, J_GOOD, WS, FENCE>>],
      [http |-> "ok", text |-> <<J_OTHER>>],
      [http |-> "ok", text |-> <<NOT_JSON>>],
      [http |-> "ok", text |-> <<WS, J_NO_SUMMARY, WS>>],
      [http |-> "ok", text |-> <<FENCE, J_EMPTY_CATEGORY, FENCE>>],
      [http |-> "ok", text |-> <<J_LIST>>],
      [http |-> "ok", text |-> <<J_NULL>>] }

\* The response used for articles the pipeline never summarizes.
UnusedGeminiResponse == [http |-> "ok", text |-> <<J_OTHER>>]

\* What requests.get() yields: transport is "error" when the request raises,
\* "badjson" when the body is not JSON; status is None when the key is absent;
\* articles_key is "missing" (no such key), "null", "object" (the empty JSON
\* object where the array is expected) or "list".
NewsResponse(tr, st, ak, arts) ==
    [transport |-> tr, status |-> st, articles_key |-> ak, articles |-> arts]

ArticleLists == UNION {[1..n -> ArticleObjects] : n \in 0..MaxArticles}

OneArticle == <<Article("T1", "U1", "d1", "c1", None)>>

NewsResponses ==
    { NewsResponse("ok", "ok", "list", arts) : arts \in ArticleLists }
    \cup { NewsResponse("error", None, "missing", << >>),
           NewsResponse("badjson", None, "missing", << >>),
           NewsResponse("ok", None, "list", OneArticle),
           NewsResponse("ok", "error", "list", OneArticle),
           NewsResponse("ok", "ok", "missing", OneArticle),
           NewsResponse("ok", "ok", "null", OneArticle),
           NewsResponse("ok", "ok", "object", << >>) }

\* Content of news.json: a document json.dump wrote completely (valid), or
\* what is left when the write broke off after open() truncated the file.
Document(ts, arts) == [valid |-> TRUE, last_updated |-> ts, articles |-> arts]

TruncatedFile == [valid |-> FALSE, last_updated |-> None, articles |-> << >>]

PriorDocument ==
    Document("t0", <<[title |-> "T0", summary |-> "s0", url |-> "U0",
                      category |-> "National", date |-> "d0"]>>)

\* datetime.now(timezone.utc).isoformat() of the given run.
Now(r) == IF r = 1 THEN "t1" ELSE "t2"

-----------------------------------------------------------------------------
(* get_ai_summary: decoding of the text-generation answer.                 *)

\* str.replace(token, ""): every occurrence of the token is removed.
RECURSIVE Remove(_, _)
Remove(text, tok) ==
    IF text = << >> THEN << >>
    ELSE IF Head(text) = tok THEN Remove(Tail(text), tok)
    ELSE <<Head(text)>> \o Remove(Tail(text), tok)

\* str.strip(): leading and trailing whitespace is removed.
RECURSIVE StripLeft(_)
StripLeft(text) ==
    IF text # << >> /\ Head(text) = WS THEN StripLeft(Tail(text)) ELSE text

RECURSIVE StripRight(_)
StripRight(text) ==
    IF text # << >> /\ text[Len(text)] = WS
    THEN StripRight(SubSeq(text, 1, Len(text) - 1))
    ELSE text

Strip(text) == StripRight(StripLeft(text))

\* cleaned_json_text of line 59.
CleanJsonText(raw_json_text) ==
    Strip(Remove(Remove(Strip(raw_json_text), FENCE_JSON), FENCE))

\* A value get_ai_summary returns: None, a dict read with .get (summary and
\* category are None when the key is absent) or a JSON array.
PyNone == [kind |-> "None", summary |-> None, category |-> None]

PyDict(s, c) == [kind |-> "dict", summary |-> s, category |-> c]

PyList == [kind |-> "list", summary |-> None, category |-> None]

ParseError == [kind |-> "error", summary |-> None, category |-> None]

\* json.loads(cleaned_json_text): the text must be exactly one JSON value.
JsonLoads(text) ==
    IF Len(text) # 1 THEN ParseError
    ELSE CASE text[1] = J_GOOD -> PyDict("s1", "Defence")
           [] text[1] = J_OTHER -> PyDict("s2", "Sports")
           [] text[1] = J_NO_SUMMARY -> PyDict(None, "National")
           [] text[1] = J_EMPTY_CATEGORY -> PyDict("s3", "")
           [] text[1] = J_LIST -> PyList
           [] text[1] = J_NULL -> PyNone
           [] OTHER -> ParseError

\* Number of requests.post() calls one get_ai_summary call makes.
GeminiPosts(key) == IF Falsy(key) THEN 0 ELSE 1

\* get_ai_summary(text), given the key and the answer the service gives for
\* this text: None without a key, None on any exception, else the parsed
\* value.
get_ai_summary(key, response) ==
    IF Falsy(key) THEN PyNone
    ELSE IF response.http # "ok" THEN PyNone
    ELSE LET parsed == JsonLoads(CleanJsonText(response.text))
         IN  IF parsed.kind = "error" THEN PyNone ELSE parsed

\* `ai_result and ...`: None is falsy, the dicts and arrays above are not empty.
ResultTruthy(ai_result) == ai_result.kind # "None"

-----------------------------------------------------------------------------
(* fetch_and_process_news: the steps of the loop body and of the           *)
(* deduplication, as operators.                                            *)

\* text_to_summarize of line 98.
TextToSummarize(article) == PyOr(article.content, article.description)

\* FilteredOut with the test of the url left out.
FilteredOutIgnoringUrl(article) ==
    Falsy(TextToSummarize(article)) \/ Falsy(article.title)

\* The `continue` of lines 100-101.
FilteredOut(article) ==
    Falsy(TextToSummarize(article)) \/ Falsy(article.title) \/ Falsy(article.url)

\* ai_result.get(...) of line 107 raises AttributeError when the parsed JSON
\* is truthy but no dict.
GetRaises(ai_result) == ResultTruthy(ai_result) /\ ai_result.kind # "dict"

\* The condition of line 107, for a result on which it does not raise.
Accepted(ai_result) ==
    ResultTruthy(ai_result) /\ Truthy(ai_result.summary) /\ Truthy(ai_result.category)

\* unique_articles is an insertion-ordered dict: a sequence of key/value
\* entries with distinct keys.
Keys(unique_articles) == {unique_articles[k].key : k \in 1..Len(unique_articles)}

\* DictInsert keyed by the title instead of the url.
DictInsertByTitle(unique_articles, article) ==
    IF article.title \notin Keys(unique_articles)
    THEN Append(unique_articles, [key |-> article.title, value |-> article])
    ELSE unique_articles

\* DictInsert without the membership test: unique_articles[url] = article
\* replaces the value of a key that is present, in place.
DictInsertOverwrite(unique_articles, article) ==
    IF article.url \notin Keys(unique_articles)
    THEN Append(unique_articles, [key |-> article.url, value |-> article])
    ELSE [k \in 1..Len(unique_articles) |->
            IF unique_articles[k].key = article.url
            THEN [key |-> article.url, value |-> article]
            ELSE unique_articles[k]]

\* Lines 124-125: one iteration of the deduplication loop.
DictInsert(unique_articles, article) ==
    IF article.url \notin Keys(unique_articles)
    THEN Append(unique_articles, [key |-> article.url, value |-> article])
    ELSE unique_articles

\* Lines 122-125: the dict after the loop over the first n entries.
RECURSIVE UniqueArticles(_, _)
UniqueArticles(list, n) ==
    IF n = 0 THEN << >>
    ELSE DictInsert(UniqueArticles(list, n - 1), list[n])

\* list(unique_articles.values()) of line 127.
Values(unique_articles) ==
    [k \in 1..Len(unique_articles) |-> unique_articles[k].value]

FinalArticlesList(list) == Values(UniqueArticles(list, Len(list)))

\* Lines 81-94 up to the first loop iteration: "failed" when an exception
\* reaches the handler of line 143, "returned" for the return of line 87,
\* "loop" when the loop over the articles is entered (over an empty JSON
\* object it iterates zero times).
FetchOutcome(response) ==
    IF response.transport # "ok" THEN "failed"
    ELSE IF response.status = None THEN "failed"
    ELSE IF response.status # "ok" THEN "returned"
    ELSE IF response.articles_key \in {"missing", "null"} THEN "failed"
    ELSE "loop"

-----------------------------------------------------------------------------
(* State.                                                                  *)

VARIABLES
    NEWS_API_KEY,           \* module globals read from the environment
    GEMINI_API_KEY,
    news_response,          \* what the article source answers (fixed)
    gemini_response,        \* what the text generation answers for article j (fixed)
    run,                    \* 1 or 2
    pc,                     \* position in fetch_and_process_news
    i,                      \* index of the next article of the loop of line 94
    workflow_timestamp,
    initial_articles_list,
    final_articles_list,
    output_file,            \* content of news.json
    file_at_start,          \* content of news.json when the run began
    file_opened,            \* open(OUTPUT_FILE, 'w') was executed in this run
    write_error,            \* an I/O error was raised by lines 138-139
    source_requests,        \* requests.get calls of this run
    gemini_posts,           \* requests.post calls of this run, per article
    ai_calls,               \* articles get_ai_summary was called for, in order
    article_state,          \* per article: Fetched, Dropped, Summarizing, Enriched, Skipped
    first_run               \* what run 1 wrote, once run 2 has begun

vars == <<NEWS_API_KEY, GEMINI_API_KEY, news_response, gemini_response, run, pc, i,
          workflow_timestamp, initial_articles_list, final_articles_list,
          output_file, file_at_start, file_opened, write_error, source_requests,
          gemini_posts, ai_calls, article_state, first_run>>

inputs == <<NEWS_API_KEY, GEMINI_API_KEY, news_response, gemini_response>>

Articles == news_response.articles

Indices == 1..Len(Articles)

Terminal == {"done", "failed", "returned"}

\* formatted_article with the run's timestamp in the place of the article's
\* publication date.
FormattedArticleStamped(article, ai_result) ==
    [title |-> article.title,
     summary |-> ai_result.summary,
     url |-> article.url,
     category |-> ai_result.category,
     date |-> workflow_timestamp]

\* formatted_article of lines 108-114.
FormattedArticle(article, ai_result) ==
    [title |-> article.title,
     summary |-> ai_result.summary,
     url |-> article.url,
     category |-> ai_result.category,
     date |-> article.publishedAt]

\* The per-run state at the start of a run.
RunStart ==
    /\ pc' = "start"
    /\ i' = 1
    /\ workflow_timestamp' = None
    /\ initial_articles_list' = << >>
    /\ final_articles_list' = << >>
    /\ file_opened' = FALSE
    /\ write_error' = FALSE
    /\ source_requests' = 0
    /\ gemini_posts' = [j \in Indices |-> 0]
    /\ ai_calls' = << >>
    /\ article_state' = [j \in Indices |-> "Fetched"]

Init ==
    /\ NEWS_API_KEY \in {None, "news-key"}
    /\ GEMINI_API_KEY \in {None, "gemini-key"}
    /\ news_response \in NewsResponses
    /\ gemini_response \in [Indices -> GeminiResponses]
    \* the answer for an article that is never sent is immaterial: fix it
    /\ \A j \in Indices :
          (Falsy(GEMINI_API_KEY) \/ FilteredOut(Articles[j]))
              => gemini_response[j] = UnusedGeminiResponse
    /\ run = 1
    /\ pc = "start"
    /\ i = 1
    /\ workflow_timestamp = None
    /\ initial_articles_list = << >>
    /\ final_articles_list = << >>
    /\ output_file = PriorDocument
    /\ file_at_start = PriorDocument
    /\ file_opened = FALSE
    /\ write_error = FALSE
    /\ source_requests = 0
    /\ gemini_posts = [j \in Indices |-> 0]
    /\ ai_calls = << >>
    /\ article_state = [j \in Indices |-> "Fetched"]
    /\ first_run = [wrote |-> FALSE, articles |-> << >>]

-----------------------------------------------------------------------------
(* Actions.                                                                *)

\* Lines 69-71: without NEWS_API_KEY the function returns at once.
StartRun ==
    /\ pc = "start"
    /\ pc' = IF Falsy(NEWS_API_KEY) THEN "returned" ELSE "fetch"
    /\ UNCHANGED <<inputs, run, i, workflow_timestamp, initial_articles_list,
                   final_articles_list, output_file, file_at_start, file_opened,
                   write_error, source_requests, gemini_posts, ai_calls,
                   article_state, first_run>>

\* Lines 81-94: the request, the status check, the timestamp.
FetchNews ==
    /\ pc = "fetch"
    /\ source_requests' = source_requests + 1
    /\ pc' = FetchOutcome(news_response)
    \* line 92 is reached when the status check of line 85 passed
    /\ workflow_timestamp' =
          IF news_response.transport = "ok" /\ news_response.status = "ok"
          THEN Now(run) ELSE workflow_timestamp
    /\ UNCHANGED <<inputs, run, i, initial_articles_list, final_articles_list,
                   output_file, file_at_start, file_opened, write_error,
                   gemini_posts, ai_calls, article_state, first_run>>

\* Lines 94-118: one iteration of the loop over news_data['articles'].
ProcessArticle ==
    /\ pc = "loop"
    /\ i \in Indices
    /\ LET article == Articles[i]
           ai_result == get_ai_summary(GEMINI_API_KEY, gemini_response[i])
       IN  IF FilteredOut(article)
           THEN /\ article_state' = [article_state EXCEPT ![i] = "Dropped"]
                /\ i' = i + 1
                /\ UNCHANGED <<pc, initial_articles_list, gemini_posts, ai_calls>>
           ELSE /\ ai_calls' = Append(ai_calls, i)
                /\ gemini_posts' =
                      [gemini_posts EXCEPT ![i] = @ + GeminiPosts(GEMINI_API_KEY)]
                /\ IF GetRaises(ai_result)
                   THEN /\ pc' = "failed"
                        /\ article_state' = [article_state EXCEPT ![i] = "Summarizing"]
                        /\ UNCHANGED <<i, initial_articles_list>>
                   ELSE IF Accepted(ai_result)
                   THEN /\ initial_articles_list' =
                              Append(initial_articles_list,
                                     FormattedArticle(article, ai_result))
                        /\ article_state' = [article_state EXCEPT ![i] = "Enriched"]
                        /\ i' = i + 1
                        /\ UNCHANGED pc
                   ELSE /\ article_state' = [article_state EXCEPT ![i] = "Skipped"]
                        /\ i' = i + 1
                        /\ UNCHANGED <<pc, initial_articles_list>>
    /\ UNCHANGED <<inputs, run, workflow_timestamp, final_articles_list, output_file,
                   file_at_start, file_opened, write_error, source_requests,
                   first_run>>

\* Lines 121-135: after the loop, the deduplication.
Deduplicate ==
    /\ pc = "loop"
    /\ i \notin Indices
    /\ final_articles_list' = FinalArticlesList(initial_articles_list)
    /\ pc' = "write"
    /\ UNCHANGED <<inputs, run, i, workflow_timestamp, initial_articles_list,
                   output_file, file_at_start, file_opened, write_error,
                   source_requests, gemini_posts, ai_calls, article_state, first_run>>

\* Lines 138-139: open() truncates the file, json.dump writes the document.
WriteOutput ==
    /\ pc = "write"
    /\ file_opened' = TRUE
    /\ output_file' = Document(workflow_timestamp, final_articles_list)
    /\ pc' = "done"
    /\ UNCHANGED <<inputs, run, i, workflow_timestamp, initial_articles_list,
                   final_articles_list, file_at_start, write_error, source_requests,
                   gemini_posts, ai_calls, article_state, first_run>>

\* Lines 138 and 143: open() raises OSError; the file is as it was.
OpenFails ==
    /\ pc = "write"
    /\ write_error' = TRUE
    /\ pc' = "failed"
    /\ UNCHANGED <<inputs, run, i, workflow_timestamp, initial_articles_list,
                   final_articles_list, output_file, file_at_start, file_opened,
                   source_requests, gemini_posts, ai_calls, article_state, first_run>>

\* Lines 139 and 143: the write raises OSError after open() truncated the file.
DumpFails ==
    /\ pc = "write"
    /\ file_opened' = TRUE
    /\ write_error' = TRUE
    /\ output_file' = TruncatedFile
    /\ pc' = "failed"
    /\ UNCHANGED <<inputs, run, i, workflow_timestamp, initial_articles_list,
                   final_articles_list, file_at_start, source_requests,
                   gemini_posts, ai_calls, article_state, first_run>>

\* Lines 146-147, a second time: the next scheduled run of the script, against
\* the same upstream responses.
NextRun ==
    /\ run = 1
    /\ pc \in Terminal
    /\ run' = 2
    /\ first_run' = [wrote |-> pc = "done", articles |-> output_file.articles]
    /\ file_at_start' = output_file
    /\ RunStart
    /\ UNCHANGED <<inputs, output_file>>

Next ==
    \/ StartRun
    \/ FetchNews
    \/ ProcessArticle
    \/ Deduplicate
    \/ WriteOutput
    \/ OpenFails
    \/ DumpFails
    \/ NextRun

Spec == Init /\ [][Next]_vars

-----------------------------------------------------------------------------
(* Vocabulary of the properties.                                           *)

Range(s) == {s[k] : k \in 1..Len(s)}

Written == output_file.articles

\* The run wrote its document.
Wrote == pc = "done"

\* The article lacks its title, its url, or both content and description.
MissingFields(article) ==
    \/ article.title \in {None, ""}
    \/ article.url \in {None, ""}
    \/ (article.content \in {None, ""} /\ article.description \in {None, ""})

\* The article is the source of an entry of the list.
Appears(article, list) ==
    \E k \in 1..Len(list) :
        /\ list[k].title = article.title
        /\ list[k].url = article.url
        /\ list[k].date = article.publishedAt

\* The source fetch fails: request error, unreadable body, absent or non-ok
\* status, or an articles field that is absent or is no array.
SourceFails ==
    \/ news_response.transport # "ok"
    \/ news_response.status # "ok"
    \/ news_response.articles_key # "list"

\* The text generation fails for article j: HTTP failure or unparsable text.
SummarizationFails(j) ==
    \/ gemini_response[j].http # "ok"
    \/ JsonLoads(CleanJsonText(gemini_response[j].text)).kind = "error"

\* The answer for article j is a JSON object with a non-empty summary and a
\* non-empty category.
CompleteResult(j) ==
    LET parsed == JsonLoads(CleanJsonText(gemini_response[j].text))
    IN  /\ Truthy(GEMINI_API_KEY)
        /\ gemini_response[j].http = "ok"
        /\ parsed.kind = "dict"
        /\ parsed.summary \notin {None, ""}
        /\ parsed.category \notin {None, ""}

\* The entries of list whose url no earlier entry has, in the order of list.
RECURSIVE FirstOccurrences(_, _)
FirstOccurrences(list, n) ==
    IF n = 0 THEN << >>
    ELSE IF \E m \in 1..(n - 1) : list[m].url = list[n].url
         THEN FirstOccurrences(list, n - 1)
         ELSE Append(FirstOccurrences(list, n - 1), list[n])

NoNetworkCall ==
    /\ source_requests = 0
    /\ \A j \in Indices : gemini_posts[j] = 0

FileUntouched == ~file_opened /\ output_file = file_at_start

-----------------------------------------------------------------------------
(* Properties.                                                             *)

\* C1: whenever a run has written the output document, no two entries of its
\* articles list have the same url.
C1_UniqueUrls ==
    Wrote => \A a, b \in 1..Len(Written) : a # b => Written[a].url # Written[b].url

\* A run wrote one entry although two enriched articles shared the url.
C1_Witness ==
    /\ Wrote
    /\ Len(initial_articles_list) = 2
    /\ initial_articles_list[1].url = initial_articles_list[2].url
    /\ Len(Written) = 1

\* C2 (as claimed): an article whose summarization fails is given exactly 3
\* attempts before the pipeline skips it, and it is absent from the output.
C2_ThreeAttempts ==
    \A j \in Indices :
        (/\ Truthy(GEMINI_API_KEY)
         /\ SummarizationFails(j)
         /\ article_state[j] = "Skipped")
        => /\ gemini_posts[j] = 3
           /\ (Wrote => ~Appears(Articles[j], Written))

\* C3 (as claimed): every entry of the written articles list has one of the
\* four categories.
C3_CategoryEnum ==
    Wrote => \A k \in 1..Len(Written) : Written[k].category \in Categories

\* C4 (as claimed): with both credentials present, a run ends without a
\* document only when the source fetch fails or the write raises an I/O error.
C4_FailedOnlyBySourceOrWrite ==
    (pc \in {"failed", "returned"} /\ Truthy(NEWS_API_KEY) /\ Truthy(GEMINI_API_KEY))
        => (SourceFails \/ write_error)

\* C5 (as claimed): when a credential is missing, no network call is made and
\* the output file is neither opened nor changed.
C5_NoCredentialNoEffect ==
    (Falsy(NEWS_API_KEY) \/ Falsy(GEMINI_API_KEY)) => (NoNetworkCall /\ FileUntouched)

\* C6 (as claimed): when the source fetch fails, no summarization call is ever
\* made, the output file is never opened, and its content stays what it was
\* when the run began.
C6_SourceFailureIsFatal ==
    SourceFails =>
        /\ ai_calls = << >>
        /\ \A j \in Indices : gemini_posts[j] = 0
        /\ FileUntouched

\* C7: the written articles list is the subsequence of first occurrences of
\* each url of the enriched sequence, in their order; of two enriched
\* articles sharing a url, the entry written is the earlier one, field by field.
C7_FirstWins ==
    Wrote =>
        /\ Written = FirstOccurrences(initial_articles_list, Len(initial_articles_list))
        /\ \A a, b \in 1..Len(initial_articles_list) :
              (a < b /\ initial_articles_list[a].url = initial_articles_list[b].url)
              => \A k \in 1..Len(Written) :
                    Written[k].url = initial_articles_list[b].url
                    => \E m \in 1..a :
                          /\ Written[k] = initial_articles_list[m]
                          /\ \A n \in 1..(m - 1) :
                                initial_articles_list[n].url # Written[k].url

\* Two enriched articles with one url and different titles and summaries; the
\* document holds the first.
C7_Witness ==
    /\ Wrote
    /\ Len(initial_articles_list) = 2
    /\ initial_articles_list[1].url = initial_articles_list[2].url
    /\ initial_articles_list[1].title # initial_articles_list[2].title
    /\ initial_articles_list[1].summary # initial_articles_list[2].summary
    /\ Written = <<initial_articles_list[1]>>

\* C8: an article lacking its title, its url, or both content and description
\* is never passed to get_ai_summary and never appears in the written output.
C8_InvalidNeverEnriched ==
    \A j \in Indices :
        MissingFields(Articles[j])
        => /\ j \notin Range(ai_calls)
           /\ gemini_posts[j] = 0
           /\ ~Appears(Articles[j], initial_articles_list)
           /\ (Wrote => ~Appears(Articles[j], Written))

\* A run dropped an article with missing fields and wrote a non-empty document.
C8_Witness ==
    /\ Wrote
    /\ Len(Written) >= 1
    /\ \E j \in Indices : MissingFields(Articles[j]) /\ article_state[j] = "Dropped"

\* C9: two runs against the same source answer and the same text-generation
\* answers write the same articles list; only last_updated differs.
C9_SameArticles ==
    (run = 2 /\ Wrote /\ first_run.wrote) => Written = first_run.articles

\* Both runs wrote a non-empty list, under different timestamps.
C9_Witness ==
    /\ run = 2
    /\ Wrote
    /\ first_run.wrote
    /\ Len(Written) >= 1
    /\ Written = first_run.articles
    /\ output_file.last_updated # Now(1)

\* C10 (as claimed): when a run ends on a well-formed source answer, every
\* article that passes the filter has been summarized exactly once, in source
\* order, and has ended Enriched or Skipped, Enriched exactly when its result
\* is complete.
C10_EveryValidArticleSettled ==
    (pc \in Terminal /\ Truthy(NEWS_API_KEY) /\ ~SourceFails)
    => /\ \A j \in Indices :
             ~MissingFields(Articles[j])
             => /\ article_state[j] \in {"Enriched", "Skipped"}
                /\ (article_state[j] = "Enriched") <=> CompleteResult(j)
                /\ Cardinality({k \in 1..Len(ai_calls) : ai_calls[k] = j}) = 1
       /\ \A a, b \in 1..Len(ai_calls) : a < b => ai_calls[a] < ai_calls[b]

====
